---------------------------- MODULE Spec2Model ----------------------------
(***************************************************************************)
(* A model of unique_variable_names.cpp: the LCS based similarity metric,  *)
(* the reconstruction of one longest common subsequence in the static      *)
(* buffer lcs, the pair loop of Traversal::processNames and the bottom-up  *)
(* accumulation of names in Traversal::evaluateSynthesizedAttribute.       *)
(*                                                                         *)
(* Characters are one-letter strings, C strings are sequences of them.     *)
(* A float is the rational it rounds from, kept in lowest terms, or one of *)
(* the IEEE specials NaN and +Inf (0/0 and x/0 occur in the prune ratio).  *)
(* For lengths below 1200 all float operations of the program order these  *)
(* values as the rationals do; the reciprocal 1.0/g of the prune may be    *)
(* one ulp below the directly rounded ratio, never two, so no float lies   *)
(* strictly between them.                                                  *)
(***************************************************************************)
EXTENDS Integers, Sequences, FiniteSets, TLC

(***************************************************************************)
(* Bounds of the model and constants of the program.                       *)
(***************************************************************************)
MaxLen == 3          \* longest argument string of the call specification

MaxNames == 3        \* longest name list handed to processNames

MaxNameLen == 3      \* longest name in such a list

MaxNodes == 4        \* number of AST nodes below the root of the traversal

MAX_LCS == 256       \* #define MAX_LCS 256

NUL == "NUL"

Alphabet == {"a", "b"}

StringsUpTo(n) == UNION {[1..k -> Alphabet] : k \in 0..n}

Max(a, b) == IF a >= b THEN a ELSE b

Min(a, b) == IF a <= b THEN a ELSE b

RECURSIVE Gcd(_, _)
Gcd(a, b) == IF b = 0 THEN a ELSE Gcd(b, a % b)

\* for (k = lo; k <= hi; ++k) st = Body(st, k): the loop is unrolled as a
\* balanced tree and each half is evaluated before the next one starts
RECURSIVE For(_, _, _, _)
For(Body(_, _), st, lo, hi) ==
    IF lo > hi THEN st
    ELSE IF lo = hi THEN Body(st, lo)
    ELSE LET mid  == (lo + hi) \div 2
             left == For(Body, st, lo, mid)
         IN  IF Len(<<left>>) = 1 THEN For(Body, left, mid + 1, hi) ELSE left

Repeat(ch, n) == SubSeq([k \in 1..n |-> ch], 1, n)

\* a C array a[0..n] is the sequence of its n+1 elements
At(a, k) == a[k + 1]

Put(a, k, v) == [a EXCEPT ![k + 1] = v]

(***************************************************************************)
(* float                                                                   *)
(***************************************************************************)
Fin(n, d) == [k |-> "fin", n |-> n \div Gcd(n, d), d |-> d \div Gcd(n, d)]

NaN == [k |-> "nan", n |-> 0, d |-> 0]

Inf == [k |-> "inf", n |-> 1, d |-> 0]

Zero == Fin(0, 1)

One == Fin(1, 1)

\* ((float)a) / ((float)b) for unsigned a, b: 0/0 is NaN, a/0 is +Inf
FDiv(a, b) ==
    IF b = 0 THEN (IF a = 0 THEN NaN ELSE Inf) ELSE Fin(a, b)

\* x > y; every comparison with NaN is false
FGt(x, y) ==
    IF x.k = "nan" \/ y.k = "nan" THEN FALSE
    ELSE IF x.k = "inf" THEN y.k # "inf"
    ELSE IF y.k = "inf" THEN FALSE
    ELSE x.n * y.d > y.n * x.d

\* x < y
FLt(x, y) == FGt(y, x)

\* 1.0 / x for x > 1.0
FRecip(x) == IF x.k = "inf" THEN Zero ELSE Fin(x.d, x.n)

(***************************************************************************)
(* The static buffer  static char lcs[MAX_LCS]  of longestCommonSubstring. *)
(* It is zero-initialised; the model keeps its content up to the last      *)
(* character that is not NUL, index k of the array being element k+1.      *)
(***************************************************************************)
BufAt(buf, k) == IF k < Len(buf) THEN buf[k + 1] ELSE NUL

\* buf without the NULs at its end
Trim(buf) ==
    LET used == {n \in 1..Len(buf) : buf[n] # NUL}
    IN  IF used = {} THEN <<>>
        ELSE SubSeq(buf, 1, CHOOSE n \in used : \A m \in used : m <= n)

\* lcs[k] = ch, for an index inside the array
BufSet(buf, k, ch) ==
    IF k >= Len(buf)
    THEN (IF ch = NUL THEN buf ELSE buf \o Repeat(NUL, k - Len(buf)) \o <<ch>>)
    ELSE IF ch = NUL /\ k = Len(buf) - 1
    THEN Trim(SubSeq(buf, 1, k))
    ELSE [buf EXCEPT ![k + 1] = ch]

\* what a reader of the C string at lcs gets: the characters before the first NUL
CString(buf) ==
    LET nuls == {n \in 1..Len(buf) : buf[n] = NUL}
    IN  IF nuls = {} THEN buf
        ELSE SubSeq(buf, 1, (CHOOSE n \in nuls : \A m \in nuls : n <= m) - 1)

(***************************************************************************)
(* similarityMetric                                                        *)
(***************************************************************************)
LongerOf(strX, strY) == IF Len(strX) > Len(strY) THEN strX ELSE strY

ShorterOf(strX, strY) == IF Len(strX) > Len(strY) THEN strY ELSE strX

\* calloc(n+1, sizeof(unsigned))
Calloc(n) == Repeat(0, n + 1)

\* swap(&previous, &next) on the pair <<previous, next>>
swap(rows) == <<rows[2], rows[1]>>

MetricCellBad(str1, ch, previous, next, k) ==
    IF str1[k] = ch
    THEN At(previous, k) + 1
    ELSE IF At(previous, k) >= At(next, k - 1)
         THEN At(previous, k) ELSE At(next, k - 1)

\* the body of the k loop: the value stored in next[k]
MetricCell(str1, ch, previous, next, k) ==
    IF str1[k] = ch
    THEN At(previous, k - 1) + 1
    ELSE IF At(previous, k) >= At(next, k - 1)
         THEN At(previous, k) ELSE At(next, k - 1)

\* for (k=1; k<=len1; ++k): next is written in place, next[0] is never written
MetricInner(str1, ch, previous, next) ==
    For(LAMBDA nx, k : Put(nx, k, MetricCell(str1, ch, previous, nx, k)),
        next, 1, Len(str1))

\* one iteration of the j loop on <<previous, next>>; jj is j+1
MetricIter(str1, str2, rows, jj) ==
    swap(<<rows[1], MetricInner(str1, str2[jj], rows[1], rows[2])>>)

\* for (j=0; j<len2; ++j) { k loop; swap }: the final <<previous, next>>
MetricOuter(str1, str2) ==
    For(LAMBDA rows, jj : MetricIter(str1, str2, rows, jj),
        <<Calloc(Len(str1)), Calloc(Len(str1))>>, 1, Len(str2))

MetricValueBad(lenLCS, len1) == FDiv(lenLCS, 2 * len1)

\* return lenLCS /= len1
MetricValue(lenLCS, len1) == FDiv(lenLCS, len1)

\* previous[len1] after the loops, for two non-empty strings
MetricLCS(strX, strY) ==
    LET str1 == LongerOf(strX, strY)
        str2 == ShorterOf(strX, strY)
    IN  At(MetricOuter(str1, str2)[1], Len(str1))

similarityMetric(strX, strY) ==
    LET str1 == LongerOf(strX, strY)
        str2 == ShorterOf(strX, strY)
    IN  IF Len(str1) = 0 \/ Len(str2) = 0
        THEN Zero
        ELSE MetricValue(MetricLCS(strX, strY), Len(str1))

(***************************************************************************)
(* longestCommonSubstring                                                  *)
(***************************************************************************)
\* the body of the c loop: the value stored in align[r][c]
AlignCell(str1, ch, above, row, cc) ==
    IF str1[cc] = ch
    THEN At(above, cc - 1) + 1
    ELSE IF At(above, cc) >= At(row, cc - 1)
         THEN At(above, cc) ELSE At(row, cc - 1)

\* for (c=1; c<=len1; ++c) on row r, whose cells calloc zeroed
AlignRow(str1, ch, above, row) ==
    For(LAMBDA rw, cc : Put(rw, cc, AlignCell(str1, ch, above, rw, cc)),
        row, 1, Len(str1))

\* one iteration of the r loop
AlignIter(str1, str2, table, rr) ==
    Put(table, rr, AlignRow(str1, str2[rr], At(table, rr - 1), At(table, rr)))

\* for (r=1; r<=len2; ++r) ...
AlignFill(str1, str2, table) ==
    For(LAMBDA t, rr : AlignIter(str1, str2, t, rr), table, 1, Len(str2))

\* the len2+1 rows of len1+1 zeroed cells
AlignCalloc(len1, len2) == Repeat(Calloc(len1), len2 + 1)

BackMoveBad(table, rr, cc, ii) ==
    IF At(At(table, rr - 1), cc) = ii THEN "up"
    ELSE IF At(At(table, rr), cc - 1) = ii THEN "left"
    ELSE IF At(At(table, rr - 1), cc - 1) = ii THEN "diag"
    ELSE "none"

\* the branch one iteration of the backtracking loop takes; "none" is the
\* case of the innermost if without else, which changes neither r nor c
BackMove(table, rr, cc, ii) ==
    IF At(At(table, rr - 1), cc) = ii THEN "up"
    ELSE IF At(At(table, rr), cc - 1) = ii THEN "left"
    ELSE IF At(At(table, rr - 1), cc - 1) = ii - 1 THEN "diag"
    ELSE "none"

\* the indices of lcs an in-bounds write may use
InBuffer(k) == k \in 0..(MAX_LCS - 1)

\* lcs[k] = ch: inside the array the byte is stored; outside it the store
\* lands in whatever follows the array and the array itself is unchanged
Store(buf, k, ch) == IF InBuffer(k) THEN BufSet(buf, k, ch) ELSE buf

\* r after one iteration that took branch m
BackNextR(m, rr) == IF m \in {"up", "diag"} THEN rr - 1 ELSE rr

\* c after one iteration that took branch m
BackNextC(m, cc) == IF m \in {"left", "diag"} THEN cc - 1 ELSE cc

\* the buffer after one iteration: lcs[i-1] = str2[--r] on the diagonal branch
BackNextLcs(m, buf, ii, str2, rr) ==
    IF m = "diag" THEN Store(buf, ii - 1, str2[rr]) ELSE buf

\* the loop condition i>0 && r>0 && c>0 with i = align[r][c]
BackGoesOn(table, rr, cc) ==
    At(At(table, rr), cc) > 0 /\ rr > 0 /\ cc > 0

\* the indices stored to so far, after one iteration that took branch m
BackNextWrites(m, ws, ii) == IF m = "diag" THEN ws \cup {ii - 1} ELSE ws

\* one iteration on [r, c, lcs, writes], or nothing once the loop has ended
BackIter(str2, table, st) ==
    IF ~BackGoesOn(table, st.r, st.c) THEN st
    ELSE LET ii == At(At(table, st.r), st.c)
             m  == BackMove(table, st.r, st.c, ii)
         IN  [r      |-> BackNextR(m, st.r),
              c      |-> BackNextC(m, st.c),
              lcs    |-> BackNextLcs(m, st.lcs, ii, str2, st.r),
              writes |-> BackNextWrites(m, st.writes, ii)]

\* the backtracking loop: an iteration that takes a branch lowers r + c, so
\* len1 + len2 iterations end the loop unless it repeats without a branch
BackLoop(str1, str2, table, buf, ws) ==
    For(LAMBDA st, n : BackIter(str2, table, st),
        [r |-> Len(str2), c |-> Len(str1), lcs |-> buf, writes |-> ws],
        1, Len(str1) + Len(str2))

\* the whole call on the static buffer buf: the buffer afterwards, the
\* indices stored to, whether the call returns, and the pointer returned
\* ("null" is return 0)
longestCommonSubstring(buf, str1, str2) ==
    IF Len(str1) = 0 \/ Len(str2) = 0
    THEN [lcs |-> buf, writes |-> {}, returns |-> TRUE, ptr |-> "null"]
    ELSE LET table == AlignFill(str1, str2, AlignCalloc(Len(str1), Len(str2)))
             L     == At(At(table, Len(str2)), Len(str1))
             last  == BackLoop(str1, str2, table, Store(buf, L, NUL), {L})
         IN  [lcs |-> last.lcs,
              writes |-> last.writes,
              returns |-> ~BackGoesOn(table, last.r, last.c),
              ptr |-> "lcs"]

(***************************************************************************)
(* Traversal::processNames                                                 *)
(***************************************************************************)
\* NameStructure(name, associatedNode)
NameStructure(name, node) == [name |-> name, associatedNode |-> node]

TriangularSkipBad(ii, jj) == jj < ii

\* if (j_index <= i_index) continue;
TriangularSkip(ii, jj) == jj <= ii

GreatestPossibleSimilarityBad(i_length, j_length) ==
    LET g == IF i_length = 0 THEN FDiv(j_length, i_length)
             ELSE FDiv(j_length \div i_length, 1)
    IN  IF FGt(g, One) THEN FRecip(g) ELSE g

\* ((float)j_length) / ((float)i_length), inverted when greater than 1.0
GreatestPossibleSimilarity(i_length, j_length) ==
    LET g == FDiv(j_length, i_length)
    IN  IF FGt(g, One) THEN FRecip(g) ELSE g

\* if (greatestPossibleSimilarity < similarity_threshold) continue;
Pruned(g, threshold) == FLt(g, threshold)

\* if (similarity > similarity_threshold)
IsMatch(sim, threshold) == FGt(sim, threshold)

\* the body of the inner loop for the counters ii, jj on
\* [results, lcs, visited, pruned]
PairBody(names, threshold, st, ii, jj) ==
    IF TriangularSkip(ii, jj) THEN st
    ELSE
      LET g   == GreatestPossibleSimilarity(Len(names[ii].name),
                                            Len(names[jj].name))
          st1 == [st EXCEPT !.visited = Append(@, <<ii, jj>>)]
          sim == similarityMetric(names[ii].name, names[jj].name)
      IN  IF Pruned(g, threshold)
          THEN [st1 EXCEPT !.pruned = Append(@, <<ii, jj>>)]
          ELSE IF IsMatch(sim, threshold)
          THEN [st1 EXCEPT
                  !.lcs = longestCommonSubstring(@, names[ii].name,
                                                 names[jj].name).lcs,
                  !.results = Append(@, <<names[ii], names[jj]>>)]
          ELSE st1

\* the two nested loops over the name list, on the static buffer buf
processNames(names, threshold, buf) ==
    For(LAMBDA sti, ii :
            For(LAMBDA stj, jj : PairBody(names, threshold, stj, ii, jj),
                sti, 1, Len(names)),
        [results |-> <<>>, lcs |-> buf, visited |-> <<>>, pruned |-> <<>>],
        1, Len(names))

(***************************************************************************)
(* State                                                                   *)
(***************************************************************************)
VARIABLES
    lcs,                  \* static char lcs[MAX_LCS]
    similarity_threshold, \* float similarity_threshold
    \* one call of similarityMetric(strX, strY) followed by one call of
    \* longestCommonSubstring(strX, strY), statement by statement
    strX, strY,           \* the two arguments
    pc,                   \* position in the two calls
    j,                    \* similarityMetric: the row counter
    previous, next,       \* similarityMetric: the two rows
    similarity,           \* the value similarityMetric returned
    align,                \* longestCommonSubstring: the table
    r, c, i,              \* longestCommonSubstring: row, column, running value
    writes,               \* indices of lcs stored to by this call
    move,                 \* branch the last backtracking iteration took
    ret,                  \* what longestCommonSubstring returned
    \* one call of Traversal::processNames, one loop iteration per step
    nameList,             \* synthesizedAttribute.nameList
    mpc,                  \* position in processNames
    i_index, j_index,     \* the two counters; the iterators i and j stand at
                          \* the elements the counters number
    results,              \* the vector of matching pairs
    visited,              \* the index pairs that passed the triangular filter
    pruned,               \* the index pairs the length ratio skipped
    \* two calls of processNames run by two tasks, one access to lcs per step
    task,
    \* the bottom-up traversal of an AST
    parent,               \* the parent of every node but the root, node 0
    kind,                 \* the class of every node
    attr,                 \* the synthesized attribute of the evaluated nodes
    order,                \* the nodes in the order they were evaluated
    reports,              \* the results of processNames at the scope nodes
    cur                   \* the node the traversal stands at, -1 when it
                          \* stands at none

callVars == <<strX, strY, pc, j, previous, next, similarity, align, r, c, i,
              writes, move, ret>>

matchVars == <<nameList, mpc, i_index, j_index, results, visited, pruned>>

travVars == <<parent, kind, attr, order, reports, cur>>

vars == <<lcs, similarity_threshold, callVars, matchVars, task, travVars>>

notCall == <<matchVars, task, travVars>>

notMatch == <<callVars, task, travVars>>

notTask == <<callVars, matchVars, travVars>>

notTrav == <<callVars, matchVars, task>>

Freed == <<>>

\* the default of the global
DefaultThreshold == Fin(3, 4)

len1 == Len(LongerOf(strX, strY))

len2 == Len(ShorterOf(strX, strY))

(***************************************************************************)
(* similarityMetric(strX, strY), one statement group per step              *)
(***************************************************************************)
\* lines 52-69: the early return for an empty string, else the two callocs
MetricEnter ==
    /\ pc = "metric"
    /\ IF len1 = 0 \/ len2 = 0
       THEN /\ similarity' = Zero
            /\ pc' = "lcs"
            /\ UNCHANGED <<j, previous, next>>
       ELSE /\ previous' = Calloc(len1)
            /\ next' = Calloc(len1)
            /\ j' = 0
            /\ pc' = "metric_loop"
            /\ UNCHANGED similarity
    /\ UNCHANGED <<lcs, similarity_threshold, strX, strY, align, r, c, i,
                   writes, move, ret>>
    /\ UNCHANGED notCall

\* lines 71-81: one iteration of the j loop, the k loop and the swap
MetricRow ==
    /\ pc = "metric_loop"
    /\ j < len2
    /\ LET rows == MetricIter(LongerOf(strX, strY), ShorterOf(strX, strY),
                              <<previous, next>>, j + 1)
       IN  /\ previous' = rows[1]
           /\ next' = rows[2]
    /\ j' = j + 1
    /\ UNCHANGED <<lcs, similarity_threshold, strX, strY, pc, similarity,
                   align, r, c, i, writes, move, ret>>
    /\ UNCHANGED notCall

\* lines 83-88: read previous[len1], free both rows, return the ratio
MetricReturn ==
    /\ pc = "metric_loop"
    /\ j >= len2
    /\ similarity' = MetricValue(At(previous, len1), len1)
    /\ previous' = Freed
    /\ next' = Freed
    /\ pc' = "lcs"
    /\ UNCHANGED <<lcs, similarity_threshold, strX, strY, j, align, r, c, i,
                   writes, move, ret>>
    /\ UNCHANGED notCall

(***************************************************************************)
(* longestCommonSubstring(strX, strY): str1 is strX, str2 is strY          *)
(***************************************************************************)
\* lines 99-108: return 0 for an empty string, else calloc the table
LcsEnter ==
    /\ pc = "lcs"
    /\ IF Len(strX) = 0 \/ Len(strY) = 0
       THEN /\ ret' = "null"
            /\ pc' = "done"
            /\ UNCHANGED <<align, r>>
       ELSE /\ align' = AlignCalloc(Len(strX), Len(strY))
            /\ r' = 1
            /\ pc' = "lcs_fill"
            /\ UNCHANGED ret
    /\ UNCHANGED <<lcs, similarity_threshold, strX, strY, j, previous, next,
                   similarity, c, i, writes, move>>
    /\ UNCHANGED notCall

\* lines 110-115: one iteration of the r loop
LcsFillRow ==
    /\ pc = "lcs_fill"
    /\ r <= Len(strY)
    /\ align' = AlignIter(strX, strY, align, r)
    /\ r' = r + 1
    /\ UNCHANGED <<lcs, similarity_threshold, strX, strY, pc, j, previous,
                   next, similarity, c, i, writes, move, ret>>
    /\ UNCHANGED notCall

\* line 117, the init of the backtracking loop: lcs[i] = '\0'
LcsBackInit ==
    /\ pc = "lcs_fill"
    /\ r > Len(strY)
    /\ r' = Len(strY)
    /\ c' = Len(strX)
    /\ i' = At(At(align, Len(strY)), Len(strX))
    /\ lcs' = Store(lcs, i', NUL)
    /\ writes' = {i'}
    /\ pc' = "lcs_back"
    /\ UNCHANGED <<similarity_threshold, strX, strY, j, previous, next,
                   similarity, align, move, ret>>
    /\ UNCHANGED notCall

\* lines 117-135: one iteration of the backtracking loop and its i=align[r][c]
LcsBack ==
    /\ pc = "lcs_back"
    /\ i > 0 /\ r > 0 /\ c > 0
    /\ move' = BackMove(align, r, c, i)
    /\ r' = BackNextR(move', r)
    /\ c' = BackNextC(move', c)
    /\ lcs' = BackNextLcs(move', lcs, i, strY, r)
    /\ writes' = BackNextWrites(move', writes, i)
    /\ i' = At(At(align, r'), c')
    /\ UNCHANGED <<similarity_threshold, strX, strY, pc, j, previous, next,
                   similarity, align, ret>>
    /\ UNCHANGED notCall

\* lines 137-142: free the table, return lcs
LcsReturn ==
    /\ pc = "lcs_back"
    /\ ~(i > 0 /\ r > 0 /\ c > 0)
    /\ align' = Freed
    /\ ret' = "lcs"
    /\ pc' = "done"
    /\ UNCHANGED <<lcs, similarity_threshold, strX, strY, j, previous, next,
                   similarity, r, c, i, writes, move>>
    /\ UNCHANGED notCall

\* the buffer a call finds: untouched since program start, or left by an
\* earlier call on two longest strings
EarlierBuffers ==
    {<<>>, longestCommonSubstring(<<>>, Repeat("b", MaxLen), Repeat("b", MaxLen)).lcs}

\* the parts of the state a specification does not use
MatchIdle ==
    /\ nameList = <<>>
    /\ mpc = "idle"
    /\ i_index = 0
    /\ j_index = 0
    /\ results = <<>>
    /\ visited = <<>>
    /\ pruned = <<>>

TaskIdle == task = <<>>

TravIdle ==
    /\ parent = <<>>
    /\ kind = <<>>
    /\ attr = <<>>
    /\ order = <<>>
    /\ reports = <<>>
    /\ cur = -1

CallInit(pairs, buffers) ==
    /\ \E p \in pairs : strX = p[1] /\ strY = p[2]
    /\ lcs \in buffers
    /\ similarity_threshold = DefaultThreshold
    /\ MatchIdle
    /\ TaskIdle
    /\ TravIdle
    /\ pc = "metric"
    /\ j = 0
    /\ previous = Freed
    /\ next = Freed
    /\ similarity = Zero
    /\ align = Freed
    /\ r = 0
    /\ c = 0
    /\ i = 0
    /\ writes = {}
    /\ move = "none"
    /\ ret = "none"

\* the two strings of the example in the comment before similarityMetric
Buffer == <<"b", "u", "f", "f", "e", "r">>

Fer == <<"f", "e", "r">>

Inputs == StringsUpTo(MaxLen) \cup {Buffer, Fer}

Init == CallInit(Inputs \X Inputs, EarlierBuffers)

Next ==
    \/ MetricEnter
    \/ MetricRow
    \/ MetricReturn
    \/ LcsEnter
    \/ LcsFillRow
    \/ LcsBackInit
    \/ LcsBack
    \/ LcsReturn

Spec == Init /\ [][Next]_vars

FairSpec == Spec /\ WF_vars(Next)


(***************************************************************************)
(* The two calls as single steps, on short strings and on two equal        *)
(* strings of MAX_LCS - 1 and of MAX_LCS characters.                       *)
(***************************************************************************)
LongInputs ==
    (StringsUpTo(MaxLen - 1) \X StringsUpTo(MaxLen - 1))
        \cup {<<Repeat("a", n), Repeat("a", n)>> : n \in {MAX_LCS - 1, MAX_LCS}}

\* the buffer untouched, or left by an earlier call on the longest names
\* whose common subsequence fits
LongBuffers ==
    {<<>>, longestCommonSubstring(<<>>, Repeat("b", MAX_LCS - 1),
                                  Repeat("b", MAX_LCS - 1)).lcs}

InitLong == CallInit(LongInputs, LongBuffers)

\* lines 49-89, the whole call
CallMetric ==
    /\ pc = "metric"
    /\ similarity' = similarityMetric(strX, strY)
    /\ pc' = "lcs"
    /\ UNCHANGED <<lcs, similarity_threshold, strX, strY, j, previous, next,
                   align, r, c, i, writes, move, ret>>
    /\ UNCHANGED notCall

\* lines 95-143, the whole call
CallLcs ==
    /\ pc = "lcs"
    /\ LET call == longestCommonSubstring(lcs, strX, strY)
       IN  /\ call.returns
           /\ lcs' = call.lcs
           /\ writes' = call.writes
           /\ ret' = call.ptr
    /\ pc' = "done"
    /\ UNCHANGED <<similarity_threshold, strX, strY, j, previous, next,
                   similarity, align, r, c, i, move>>
    /\ UNCHANGED notCall

NextLong ==
    \/ CallMetric
    \/ CallLcs

SpecLong == InitLong /\ [][NextLong]_vars

(***************************************************************************)
(* One call of processNames on a list of at most MaxNames names, for the   *)
(* default threshold and for other values of the global.                   *)
(***************************************************************************)
Thresholds == {Zero, Fin(1, 2), DefaultThreshold, One}

\* the zero-length name, the name b and, for every length up to MaxNameLen,
\* the name abb...b
Names ==
    {<<>>, <<"b">>} \cup {<<"a">> \o Repeat("b", n - 1) : n \in 1..MaxNameLen}

\* the lists the collector can hand over: entry k belongs to declaration k
NameLists ==
    UNION {{[k \in 1..n |-> NameStructure(f[k], k)] : f \in [1..n -> Names]} :
           n \in 0..MaxNames}

InitMatch ==
    /\ nameList \in NameLists
    /\ similarity_threshold \in Thresholds
    /\ lcs = <<>>
    /\ mpc = "outer"
    /\ i_index = 0
    /\ j_index = 0
    /\ results = <<>>
    /\ visited = <<>>
    /\ pruned = <<>>
    /\ strX = <<>>
    /\ strY = <<>>
    /\ pc = "idle"
    /\ j = 0
    /\ previous = Freed
    /\ next = Freed
    /\ similarity = Zero
    /\ align = Freed
    /\ r = 0
    /\ c = 0
    /\ i = 0
    /\ writes = {}
    /\ move = "none"
    /\ ret = "none"
    /\ TaskIdle
    /\ TravIdle

\* lines 287-295: the outer loop enters its body, ++i_index, int j_index = 0
OuterEnter ==
    /\ mpc = "outer"
    /\ i_index < Len(nameList)
    /\ i_index' = i_index + 1
    /\ j_index' = 0
    /\ mpc' = "inner"
    /\ UNCHANGED <<lcs, similarity_threshold, nameList, results, visited,
                   pruned>>
    /\ UNCHANGED notMatch

\* lines 297-387: one iteration of the inner loop
InnerIter ==
    /\ mpc = "inner"
    /\ j_index < Len(nameList)
    /\ j_index' = j_index + 1
    /\ LET st == PairBody(nameList, similarity_threshold,
                          [results |-> results, lcs |-> lcs,
                           visited |-> visited, pruned |-> pruned],
                          i_index, j_index')
       IN  /\ results' = st.results
           /\ lcs' = st.lcs
           /\ visited' = st.visited
           /\ pruned' = st.pruned
    /\ UNCHANGED <<similarity_threshold, nameList, mpc, i_index>>
    /\ UNCHANGED notMatch

\* line 298: j reached the end of the list, the outer loop goes on
InnerExit ==
    /\ mpc = "inner"
    /\ j_index >= Len(nameList)
    /\ mpc' = "outer"
    /\ UNCHANGED <<lcs, similarity_threshold, nameList, i_index, j_index,
                   results, visited, pruned>>
    /\ UNCHANGED notMatch

\* lines 288, 390-445: i reached the end of the list, the matches are printed
OuterExit ==
    /\ mpc = "outer"
    /\ i_index >= Len(nameList)
    /\ mpc' = "done"
    /\ UNCHANGED <<lcs, similarity_threshold, nameList, i_index, j_index,
                   results, visited, pruned>>
    /\ UNCHANGED notMatch

NextMatch ==
    \/ OuterEnter
    \/ InnerIter
    \/ InnerExit
    \/ OuterExit

SpecMatch == InitMatch /\ [][NextMatch]_vars

(***************************************************************************)
(* Two calls of processNames, each on its own list of two names, run by    *)
(* two tasks with no synchronization.  What a call keeps in locals and in  *)
(* memory it allocates (the counters, the rows of the metric, the table)   *)
(* belongs to its task; the array lcs is static in longestCommonSubstring, *)
(* one for the program, and each step does at most one access to it.       *)
(***************************************************************************)
Tasks == {1, 2}

\* the lists of two names
PairLists ==
    {<<NameStructure(x, 1), NameStructure(y, 2)>> : x \in Names, y \in Names}

\* the locals of a call of processNames that has not started its loops
TaskStart(names) ==
    [names |-> names, pc |-> "scan", i_index |-> 0, j_index |-> 0,
     similarity |-> Zero, align |-> Freed, r |-> 0, c |-> 0, i |-> 0,
     k |-> 0, copy |-> <<>>, out |-> <<>>]

InitConc ==
    /\ task \in [Tasks -> {TaskStart(l) : l \in PairLists}]
    /\ similarity_threshold \in {Fin(1, 2), DefaultThreshold}
    /\ lcs = <<>>
    /\ MatchIdle
    /\ TravIdle
    /\ strX = <<>>
    /\ strY = <<>>
    /\ pc = "idle"
    /\ j = 0
    /\ previous = Freed
    /\ next = Freed
    /\ similarity = Zero
    /\ align = Freed
    /\ r = 0
    /\ c = 0
    /\ i = 0
    /\ writes = {}
    /\ move = "none"
    /\ ret = "none"

\* the first and the second name of the pair task t works on
TaskStr1(t) == task[t].names[task[t].i_index].name

TaskStr2(t) == task[t].names[task[t].j_index].name

\* lines 287-369: the loops of processNames up to the next pair that passes
\* the triangular filter and the prune, and its call of similarityMetric;
\* the step touches nothing but locals
TaskScan(t) ==
    /\ task[t].pc = "scan"
    /\ LET me == task[t]
           n  == Len(me.names)
       IN  IF me.i_index = 0 \/ me.j_index >= n
           THEN IF me.i_index >= n
                THEN task' = [task EXCEPT ![t].pc = "done"]
                ELSE task' = [task EXCEPT ![t].i_index = @ + 1,
                                          ![t].j_index = 0]
           ELSE LET ii  == me.i_index
                    jj  == me.j_index + 1
                    g   == GreatestPossibleSimilarity(Len(me.names[ii].name),
                                                      Len(me.names[jj].name))
                    sim == similarityMetric(me.names[ii].name,
                                            me.names[jj].name)
                IN  IF TriangularSkip(ii, jj)
                       \/ Pruned(g, similarity_threshold)
                       \/ ~IsMatch(sim, similarity_threshold)
                    THEN task' = [task EXCEPT ![t].j_index = jj]
                    ELSE task' = [task EXCEPT ![t].j_index = jj,
                                              ![t].similarity = sim,
                                              ![t].pc = "lcs_init"]
    /\ UNCHANGED <<lcs, similarity_threshold>>
    /\ UNCHANGED notTask

\* lines 99-117: the table is filled and lcs[i] = '\0' is stored
TaskLcsInit(t) ==
    /\ task[t].pc = "lcs_init"
    /\ LET str1  == TaskStr1(t)
           str2  == TaskStr2(t)
           table == AlignFill(str1, str2, AlignCalloc(Len(str1), Len(str2)))
           L     == At(At(table, Len(str2)), Len(str1))
       IN  /\ Len(str1) > 0 /\ Len(str2) > 0
           /\ lcs' = Store(lcs, L, NUL)
           /\ task' = [task EXCEPT ![t].align = table,
                                   ![t].r = Len(str2),
                                   ![t].c = Len(str1),
                                   ![t].i = L,
                                   ![t].pc = "lcs_back"]
    /\ UNCHANGED similarity_threshold
    /\ UNCHANGED notTask

\* lines 117-135: one iteration of the backtracking loop
TaskLcsBack(t) ==
    /\ task[t].pc = "lcs_back"
    /\ LET me == task[t]
           m  == BackMove(me.align, me.r, me.c, me.i)
           r2 == BackNextR(m, me.r)
           c2 == BackNextC(m, me.c)
       IN  /\ me.i > 0 /\ me.r > 0 /\ me.c > 0
           /\ lcs' = BackNextLcs(m, lcs, me.i, TaskStr2(t), me.r)
           /\ task' = [task EXCEPT ![t].r = r2,
                                   ![t].c = c2,
                                   ![t].i = At(At(me.align, r2), c2)]
    /\ UNCHANGED similarity_threshold
    /\ UNCHANGED notTask

\* lines 137-142 and 373: the table is freed, the call returns lcs and the
\* caller starts to build a string from it
TaskLcsReturn(t) ==
    /\ task[t].pc = "lcs_back"
    /\ ~(task[t].i > 0 /\ task[t].r > 0 /\ task[t].c > 0)
    /\ task' = [task EXCEPT ![t].align = Freed,
                            ![t].k = 0,
                            ![t].copy = <<>>,
                            ![t].pc = "copy"]
    /\ UNCHANGED <<lcs, similarity_threshold>>
    /\ UNCHANGED notTask

\* line 373, string lcs = ...: one character of the static array is read;
\* the terminator ends the string, and the pair is pushed (lines 385-386)
TaskCopy(t) ==
    /\ task[t].pc = "copy"
    /\ InBuffer(task[t].k)
    /\ IF BufAt(lcs, task[t].k) = NUL
       THEN task' = [task EXCEPT
                        ![t].out = Append(@, [pair |-> <<task[t].i_index,
                                                         task[t].j_index>>,
                                              similarity |-> task[t].similarity,
                                              lcs |-> task[t].copy]),
                        ![t].pc = "scan"]
       ELSE task' = [task EXCEPT ![t].copy = Append(@, BufAt(lcs, task[t].k)),
                                 ![t].k = @ + 1]
    /\ UNCHANGED <<lcs, similarity_threshold>>
    /\ UNCHANGED notTask

NextConc ==
    \E t \in Tasks :
        \/ TaskScan(t)
        \/ TaskLcsInit(t)
        \/ TaskLcsBack(t)
        \/ TaskLcsReturn(t)
        \/ TaskCopy(t)

SpecConc == InitConc /\ [][NextConc]_vars

\* what a call of processNames on the list names obtains for its matches
\* when no other call runs: each call of longestCommonSubstring stores the
\* whole string and its terminator from lcs[0] on
AloneOut(names, threshold) ==
    LET alone == processNames(names, threshold, <<>>)
    IN  [m \in 1..Len(alone.results) |->
            LET x == alone.results[m][1]
                y == alone.results[m][2]
            IN  [pair |-> <<x.associatedNode, y.associatedNode>>,
                 similarity |-> similarityMetric(x.name, y.name),
                 lcs |-> CString(longestCommonSubstring(<<>>, x.name,
                                                        y.name).lcs)]]

(***************************************************************************)
(* C7: two calls of the matcher that are interleaved with no               *)
(* synchronization share no mutable state: each call, once finished, has   *)
(* obtained for every match the score and the common-subsequence string it *)
(* obtains when it runs alone.                                             *)
(***************************************************************************)
C7_InterleavedCallsAreIndependent ==
    \A t \in Tasks :
        task[t].pc = "done" =>
            task[t].out = AloneOut(task[t].names, similarity_threshold)

(***************************************************************************)
(* The traversal main starts at the project node: node 0 is the root, the  *)
(* nodes 1..MaxNodes lie below it, each under a node of smaller number, so *)
(* the children of a node are ordered by their numbers.  The traversal     *)
(* goes down to the first child not yet evaluated and evaluates the        *)
(* synthesized attribute of a node once all its children are evaluated.    *)
(***************************************************************************)
Nodes == 0..MaxNodes

\* the class of node n when it declares a name
DeclKind(n) ==
    IF n % 3 = 1 THEN "SgFunctionDeclaration"
    ELSE IF n % 3 = 2 THEN "SgInitializedName"
    ELSE "SgNamespaceDeclarationStatement"

\* get_name().str() of node n: the names of nodes with adjacent numbers
\* are similar at the default threshold, those of other nodes are not
NodeName(n) == <<"a">> \o Repeat("b", n + 2)

\* the children of n, in order
Children(n) ==
    SelectSeq([k \in 1..MaxNodes |-> k], LAMBDA m : parent[m] = n)

AccumulateBad(childAttributes) ==
    IF Len(childAttributes) = 0 THEN <<>>
    ELSE childAttributes[Len(childAttributes)]

\* lines 471-479: the names of the children, child after child
Accumulate(childAttributes) ==
    For(LAMBDA acc, k : acc \o childAttributes[k], <<>>, 1,
        Len(childAttributes))

\* Traversal::processNode: the three tests of the class of n
processNode(k, n, nameList0) ==
    LET l1 == IF k = "SgFunctionDeclaration"
              THEN Append(nameList0, NameStructure(NodeName(n), n))
              ELSE nameList0
        l2 == IF k = "SgInitializedName"
              THEN Append(l1, NameStructure(NodeName(n), n))
              ELSE l1
    IN  IF k = "SgNamespaceDeclarationStatement"
        THEN Append(l2, NameStructure(NodeName(n), n))
        ELSE l2

\* Traversal::evaluateSynthesizedAttribute on a node of class k: the
\* attribute returned, the matches printed and the static buffer afterwards
evaluateSynthesizedAttribute(k, n, childAttributes, threshold, buf) ==
    LET result == Accumulate(childAttributes)
    IN  IF k = "SgScopeStatement"
        THEN LET call == processNames(result, threshold, buf)
             IN  [nameList |-> result, results |-> call.results,
                  lcs |-> call.lcs]
        ELSE [nameList |-> processNode(k, n, result), results |-> <<>>,
              lcs |-> buf]

Evaluated == {order[k] : k \in 1..Len(order)}

InitTraverse ==
    /\ parent \in {f \in [1..MaxNodes -> 0..(MaxNodes - 1)] :
                      \A n \in 1..MaxNodes : f[n] < n}
    /\ kind \in {f \in [Nodes -> {"SgProject", "SgScopeStatement", "other",
                                  "SgFunctionDeclaration", "SgInitializedName",
                                  "SgNamespaceDeclarationStatement"}] :
                    /\ f[0] = "SgProject"
                    /\ \A n \in 1..MaxNodes :
                          f[n] \in {"SgScopeStatement", "other", DeclKind(n)}}
    /\ attr = [n \in Nodes |-> <<>>]
    /\ reports = [n \in Nodes |-> <<>>]
    /\ order = <<>>
    /\ cur = 0
    /\ similarity_threshold = DefaultThreshold
    /\ lcs = <<>>
    /\ MatchIdle
    /\ TaskIdle
    /\ strX = <<>>
    /\ strY = <<>>
    /\ pc = "idle"
    /\ j = 0
    /\ previous = Freed
    /\ next = Freed
    /\ similarity = Zero
    /\ align = Freed
    /\ r = 0
    /\ c = 0
    /\ i = 0
    /\ writes = {}
    /\ move = "none"
    /\ ret = "none"

\* the traversal goes down to the first child of cur that is not evaluated;
\* evaluateInheritedAttribute, called on the way, returns an attribute
\* without members
Descend ==
    /\ cur \in Nodes
    /\ \E m \in 1..MaxNodes :
          /\ parent[m] = cur
          /\ m \notin Evaluated
          /\ \A m2 \in 1..(m - 1) : parent[m2] = cur => m2 \in Evaluated
          /\ cur' = m
    /\ UNCHANGED <<lcs, similarity_threshold, parent, kind, attr, order,
                   reports>>
    /\ UNCHANGED notTrav

\* all children of cur are evaluated: evaluateSynthesizedAttribute(cur),
\* then the traversal is back at the parent
Evaluate ==
    /\ cur \in Nodes
    /\ \A m \in 1..MaxNodes : parent[m] = cur => m \in Evaluated
    /\ LET kids == Children(cur)
           syn  == evaluateSynthesizedAttribute(
                       kind[cur], cur, [k \in 1..Len(kids) |-> attr[kids[k]]],
                       similarity_threshold, lcs)
       IN  /\ attr' = [attr EXCEPT ![cur] = syn.nameList]
           /\ reports' = [reports EXCEPT ![cur] = syn.results]
           /\ lcs' = syn.lcs
    /\ order' = Append(order, cur)
    /\ cur' = IF cur = 0 THEN -1 ELSE parent[cur]
    /\ UNCHANGED <<similarity_threshold, parent, kind>>
    /\ UNCHANGED notTrav

NextTraverse ==
    \/ Descend
    \/ Evaluate

SpecTraverse == InitTraverse /\ [][NextTraverse]_vars

(***************************************************************************)
(* Properties of processNames.                                             *)
(***************************************************************************)
\* the index pairs (a, b) with a < b <= n, row by row
UpperPairs(n) ==
    For(LAMBDA acc, a : For(LAMBDA acc2, b : Append(acc2, <<a, b>>),
                            acc, a + 1, n),
        <<>>, 1, n)

NoDuplicates(seq) ==
    \A p, q \in 1..Len(seq) : p # q => seq[p] # seq[q]

\* the score of the names at the positions p[1], p[2] of the list
ScoreOf(p) == similarityMetric(nameList[p[1]].name, nameList[p[2]].name)

\* the pair of list positions a result entry stands for
PositionsOf(entry) == <<entry[1].associatedNode, entry[2].associatedNode>>

ResultPositions == [k \in 1..Len(results) |-> PositionsOf(results[k])]

(***************************************************************************)
(* C2: the pair loop reports exactly the pairs (i, j), i before j, whose   *)
(* similarityMetric is strictly greater than the threshold: a pair the     *)
(* length ratio skips never scores above the threshold, since the score    *)
(* is at most min(|a|,|b|)/max(|a|,|b|), and a pair scoring exactly the    *)
(* threshold is not reported.                                              *)
(***************************************************************************)
C2_PruneLosesNoMatch ==
    /\ \A k \in 1..Len(pruned) : ~FGt(ScoreOf(pruned[k]), similarity_threshold)
    /\ \A k \in 1..Len(visited) :
          LET a  == Len(nameList[visited[k][1]].name)
              b  == Len(nameList[visited[k][2]].name)
              sc == ScoreOf(visited[k])
          IN  sc.k = "fin" /\ sc.n * Max(a, b) <= Min(a, b) * sc.d
    /\ mpc = "done" =>
          ResultPositions =
              SelectSeq(UpperPairs(Len(nameList)),
                        LAMBDA p : FGt(ScoreOf(p), similarity_threshold))

\* a finished call that skipped a pair by its length ratio, reported one
\* pair and left out a pair scoring exactly the threshold
C2_Witness ==
    /\ mpc = "done"
    /\ Len(pruned) > 0
    /\ Len(results) > 0
    /\ \E k \in 1..Len(visited) :
          /\ ScoreOf(visited[k]) = similarity_threshold
          /\ \A m \in 1..Len(results) : PositionsOf(results[m]) # visited[k]

(***************************************************************************)
(* C4: for a list of n names exactly the n*(n-1)/2 index pairs with        *)
(* i_index < j_index pass the triangular filter, each once; no pair of an  *)
(* entry with itself and no pair in both orders does, and the result list  *)
(* never holds the same pair of list positions twice.                      *)
(***************************************************************************)
C4_TriangularPairsOnce ==
    /\ \A k \in 1..Len(visited) :
          /\ visited[k][1] < visited[k][2]
          /\ <<visited[k][2], visited[k][1]>> \notin
                 {visited[m] : m \in 1..Len(visited)}
    /\ NoDuplicates(visited)
    /\ NoDuplicates(ResultPositions)
    /\ \A k \in 1..Len(results) :
          /\ PositionsOf(results[k])[1] # PositionsOf(results[k])[2]
          /\ PositionsOf(results[k]) \in {visited[m] : m \in 1..Len(visited)}
    /\ mpc = "done" =>
          /\ 2 * Len(visited) = Len(nameList) * (Len(nameList) - 1)
          /\ visited = UpperPairs(Len(nameList))

\* a finished call on three names that reported all three pairs
C4_Witness ==
    /\ mpc = "done"
    /\ Len(nameList) = 3
    /\ Len(visited) = 3
    /\ Len(results) = 3

SameName(p, q) == nameList[p].name = nameList[q].name

Reported(p, q) == \E k \in 1..Len(results) : PositionsOf(results[k]) = <<p, q>>

(***************************************************************************)
(* C6: for a threshold below 1.0, every two entries at different positions *)
(* with identical names score 1.0 and are reported as a match, whatever    *)
(* the name is, the zero-length name included.                             *)
(***************************************************************************)
C6_DuplicatesAreReported ==
    (mpc = "done" /\ FLt(similarity_threshold, One)) =>
        \A p, q \in 1..Len(nameList) :
            (p < q /\ SameName(p, q)) =>
                ScoreOf(<<p, q>>) = One /\ Reported(p, q)

(***************************************************************************)
(* C6 as amended: for a threshold below 1.0, every two entries at          *)
(* different positions with identical names that are not zero-length score *)
(* 1.0 and are reported as a match; two entries with the zero-length name  *)
(* score 0.0 and are not reported.                                         *)
(***************************************************************************)
C6_NonEmptyDuplicatesAreReported ==
    (mpc = "done" /\ FLt(similarity_threshold, One)) =>
        \A p, q \in 1..Len(nameList) :
            (p < q /\ SameName(p, q)) =>
                IF Len(nameList[p].name) > 0
                THEN ScoreOf(<<p, q>>) = One /\ Reported(p, q)
                ELSE ScoreOf(<<p, q>>) = Zero /\ ~Reported(p, q)

\* a finished call at the default threshold whose list holds the zero-length
\* name and, twice, another name, reported as a match
C6_Witness ==
    /\ mpc = "done"
    /\ similarity_threshold = DefaultThreshold
    /\ \E p \in 1..Len(nameList) : Len(nameList[p].name) = 0
    /\ \E p, q \in 1..Len(nameList) :
          p < q /\ SameName(p, q) /\ Len(nameList[p].name) > 0 /\ Reported(p, q)

(***************************************************************************)
(* Reference notions the properties are stated with.                       *)
(***************************************************************************)
\* every subsequence of x
RECURSIVE Subseqs(_)
Subseqs(x) ==
    IF Len(x) = 0 THEN {<<>>}
    ELSE LET t == Subseqs(SubSeq(x, 1, Len(x) - 1))
         IN  t \cup {Append(s, x[Len(x)]) : s \in t}

\* the length of a longest common subsequence, by definition
LCSlen(x, y) ==
    LET common == Subseqs(x) \cap Subseqs(y)
    IN  CHOOSE n \in 0..Len(x) :
            /\ \E s \in common : Len(s) = n
            /\ \A s \in common : Len(s) <= n

\* s is a subsequence of x: matching s greedily along x uses up s
IsSubseq(s, x) ==
    For(LAMBDA si, xi : IF si <= Len(s) /\ s[si] = x[xi] THEN si + 1 ELSE si,
        1, 1, Len(x)) > Len(s)

Prefix(x, n) == SubSeq(x, 1, n)

MetricDone == pc \in {"lcs", "lcs_fill", "lcs_back", "done"}

(***************************************************************************)
(* C1: similarityMetric(x, y) is 0 when x or y is empty and otherwise      *)
(* LCSlen(x, y) / max(|x|, |y|): after j characters of the shorter string  *)
(* the row previous of the rolling pair holds, at every k, the true LCS    *)
(* length of the first k characters of the longer string and the first j   *)
(* of the shorter, although the rows are swapped and never zeroed again;   *)
(* the result is 1 for two identical non-empty strings.                    *)
(***************************************************************************)
C1_MetricIsLcsRatio ==
    /\ pc = "metric_loop" =>
          \A k \in 0..len1 :
              At(previous, k) = LCSlen(Prefix(LongerOf(strX, strY), k),
                                   Prefix(ShorterOf(strX, strY), j))
    /\ MetricDone =>
          /\ similarity = IF Len(strX) = 0 \/ Len(strY) = 0 THEN Zero
                          ELSE Fin(LCSlen(strX, strY), Max(Len(strX), Len(strY)))
          /\ similarity = similarityMetric(strX, strY)
          /\ (strX = strY /\ Len(strX) > 0) => similarity = One

\* the third row has been written over the first one and the result differs
\* from both 0 and 1
C1_Witness ==
    /\ pc = "metric_loop"
    /\ j = 3
    /\ strX # strY
    /\ At(previous, len1) = 2

(***************************************************************************)
(* C3: for two non-empty strings the string longestCommonSubstring returns *)
(* is a subsequence of both, its terminator is at position L, the          *)
(* positions 0..L of the buffer are the ones this call stored to, and L is *)
(* the LCS length the DP of similarityMetric computes for the two strings  *)
(* in either order.                                                        *)
(***************************************************************************)
C3_ReturnedStringIsLcs ==
    (pc = "done" /\ ret = "lcs") =>
        LET L == (similarity.n * len1) \div similarity.d
            s == CString(lcs)
        IN  /\ InBuffer(L)
            /\ BufAt(lcs, L) = NUL
            /\ Len(s) = L
            /\ writes = 0..L
            /\ IsSubseq(s, strX)
            /\ IsSubseq(s, strY)
            /\ MetricLCS(strX, strY) = L
            /\ MetricLCS(strY, strX) = L

(***************************************************************************)
(* C5: the order of the arguments of similarityMetric is significant:      *)
(* ("buffer", "fer") gives 0.5 and ("fer", "buffer") gives 1.0.            *)
(***************************************************************************)
C5_OrderIsSignificant ==
    /\ (MetricDone /\ strX = Buffer /\ strY = Fer) => similarity = Fin(1, 2)
    /\ (MetricDone /\ strX = Fer /\ strY = Buffer) => similarity = One

\* what the code does instead: the value does not depend on the order
MetricIsSymmetric ==
    MetricDone => similarity = similarityMetric(strY, strX)

(***************************************************************************)
(* C8: every index of lcs that longestCommonSubstring stores to, the       *)
(* terminator at L and the characters at L-1 down to 0, lies in            *)
(* 0..MAX_LCS-1.                                                           *)
(***************************************************************************)
C8_StoresStayInBuffer == \A k \in writes : InBuffer(k)

(***************************************************************************)
(* C9: the backtracking loop terminates: every iteration takes one of the  *)
(* branches up, left, diagonal, never the case without a branch, so r + c  *)
(* decreases in every iteration, and the call returns with the running     *)
(* value 0 or an index at 0.                                               *)
(***************************************************************************)
C9_BacktrackingTerminates ==
    /\ <>(pc = "done")
    /\ [][(pc = "lcs_back" /\ pc' = "lcs_back") =>
             /\ move' \in {"up", "left", "diag"}
             /\ r' + c' < r + c]_vars
    /\ []((pc = "done" /\ ret = "lcs") => (i = 0 \/ r = 0 \/ c = 0))

\* the loop goes on after an iteration that took the branch left, one
\* character being copied already
C9_Witness ==
    /\ pc = "lcs_back"
    /\ move = "left"
    /\ i > 0 /\ r > 0 /\ c > 0
    /\ Cardinality(writes) = 2

(***************************************************************************)
(* Properties of the traversal.                                            *)
(***************************************************************************)
\* the nodes of the subtree of n, children before their parent
RECURSIVE PostOrder(_)
PostOrder(n) ==
    LET kids == {m \in 1..MaxNodes : parent[m] = n}
        RECURSIVE Upto(_)
        Upto(m) == IF m = 0 THEN <<>>
                   ELSE Upto(m - 1) \o (IF m \in kids THEN PostOrder(m)
                                        ELSE <<>>)
    IN  Upto(MaxNodes) \o <<n>>

NameBearing(n) ==
    kind[n] \in {"SgFunctionDeclaration", "SgInitializedName",
                 "SgNamespaceDeclarationStatement"}

\* the name-bearing proper descendants of n in post-order
BearingBelow(n) ==
    SelectSeq(PostOrder(n), LAMBDA d : d # n /\ NameBearing(d))

Similar(x, y) ==
    FGt(similarityMetric(NodeName(x), NodeName(y)), similarity_threshold)

\* the pairs of nodes reported at node n
ReportedAt(n) ==
    [k \in 1..Len(reports[n]) |-> PositionsOf(reports[n][k])]

\* the pairs of similar names among the nodes of the sequence seq, the
\* earlier node first, row by row
SimilarPairs(seq) ==
    LET idx == SelectSeq(UpperPairs(Len(seq)),
                         LAMBDA p : Similar(seq[p[1]], seq[p[2]]))
    IN  [k \in 1..Len(idx) |-> <<seq[idx[k][1]], seq[idx[k][2]]>>]

=============================================================================
